---------------------------- MODULE Spec2Model ----------------------------
(***************************************************************************)
(* A model of the three STAC-to-mosaic script tools of arcgis-for-mpc:     *)
(*   AddRastersToMDFromLandsatPC.py, AddRastersToMDFromSentinel2PC.py and  *)
(*   AddRastersToMDFromNAIPPC.py.                                          *)
(*                                                                         *)
(* Three specifications share the variables:                               *)
(*   SpecFilter  the filter-row loop of query_stac_api                     *)
(*   SpecQuery   the limit selection, get_items and the empty-result test  *)
(*   SpecMosaic  add_rasters_to_md: the item/template/asset expansion, the *)
(*               manifest file, the ingestion call and the file's removal  *)
(*                                                                         *)
(* Python strings that the code splits, slices, lower-cases or parses are  *)
(* sequences of one-character strings, so that those operations are        *)
(* computed and not assumed.  Strings that the code only compares or       *)
(* copies are TLA+ strings.                                                *)
(***************************************************************************)
EXTENDS Integers, Sequences, FiniteSets, TLC

VARIABLES
    pipeline,        \* which script runs: "landsat", "sentinel2" or "naip"
    pc,              \* position of the run
    error,           \* the exception that ended the run, "" while none
    props_query,     \* query_stac_api: the value table's rows (getRow strings)
    row_i,           \* query_stac_api: index i of the filter-row loop
    query_filter,    \* query_stac_api: the dict query_filter
    query,           \* query_stac_api / get_items: the dict query (request body)
    limit,           \* query_stac_api: parameter limit
    get_all_items,   \* query_stac_api / get_items: flag get_all_items
    catalog,         \* the catalog's answers: url -> response
    url,             \* get_items: local url
    all_items,       \* get_items: local all_items
    requests,        \* every requests.post issued so far, as <<url, body>>
    items,           \* get_items' return value / query_stac_api's items
    stac_items,      \* add_rasters_to_md: parameter stac_items
    processing_template, \* add_rasters_to_md: parameter processing_template
    item_i,          \* add_rasters_to_md: index of the item loop
    rows,            \* add_rasters_to_md: local rows
    warnings,        \* every arcpy.AddWarning issued so far
    catalogs,        \* add_rasters_to_md: the template_map derived per item
    table_file,      \* the manifest file input_data on disk
    ingested         \* what AddRastersToMosaicDataset was called with

vars == <<pipeline, pc, error, props_query, row_i, query_filter, query, limit,
          get_all_items, catalog, url, all_items, requests, items, stac_items,
          processing_template, item_i, rows, warnings, catalogs, table_file,
          ingested>>

filterVars == <<props_query, row_i, query_filter>>
queryVars == <<limit, get_all_items, catalog, url, all_items, requests, items>>
mosaicVars == <<stac_items, processing_template, item_i, rows, warnings, catalogs,
                table_file, ingested>>

(***************************************************************************)
(* Bounds of the model.                                                    *)
(***************************************************************************)
MaxRows == 2        \* filter rows in one value table
MaxPages == 3       \* pages a catalog serves
MaxFeatures == 1    \* features on one page
MaxItems == 2       \* items handed to add_rasters_to_md

Pipelines == {"landsat", "sentinel2", "naip"}

(***************************************************************************)
(* Python str operations, on sequences of characters.                      *)
(***************************************************************************)
Upper == <<"A","B","C","D","E","F","G","H","I","J","K","L","M",
           "N","O","P","Q","R","S","T","U","V","W","X","Y","Z">>
Lower == <<"a","b","c","d","e","f","g","h","i","j","k","l","m",
           "n","o","p","q","r","s","t","u","v","w","x","y","z">>

\* str.lower() of one character
LowerChar(c) ==
    IF \E k \in 1..26 : Upper[k] = c
    THEN Lower[CHOOSE k \in 1..26 : Upper[k] = c]
    ELSE c

\* str.lower()
StrLower(s) == [k \in 1..Len(s) |-> LowerChar(s[k])]

\* str.upper() of one character
UpperChar(c) ==
    IF \E k \in 1..26 : Lower[k] = c
    THEN Upper[CHOOSE k \in 1..26 : Lower[k] = c]
    ELSE c

\* str.upper()
StrUpper(s) == [k \in 1..Len(s) |-> UpperChar(s[k])]

\* s[1:-1]
Slice1m1(s) == SubSeq(s, 2, Len(s) - 1)

\* s.split(" "): every single space separates, empty pieces are kept
RECURSIVE SplitFrom(_, _, _)
SplitFrom(s, k, cur) ==
    IF k > Len(s) THEN <<cur>>
    ELSE IF s[k] = " " THEN <<cur>> \o SplitFrom(s, k + 1, <<>>)
    ELSE SplitFrom(s, k + 1, Append(cur, s[k]))

StrSplit(s) == SplitFrom(s, 1, <<>>)

(***************************************************************************)
(* String literals of the source, as character sequences.                  *)
(***************************************************************************)
S_cloudcover == <<"c","l","o","u","d","c","o","v","e","r">>
S_eo_cloud_cover == <<"e","o",":","c","l","o","u","d","_","c","o","v","e","r">>
S_lessthan == <<"l","e","s","s","t","h","a","n">>
S_lessthanequals == <<"l","e","s","s","t","h","a","n","e","q","u","a","l","s">>
S_greaterthan == <<"g","r","e","a","t","e","r","t","h","a","n">>
S_greaterthanequals == <<"g","r","e","a","t","e","r","t","h","a","n","e","q","u","a","l","s">>
S_equals == <<"e","q","u","a","l","s">>
S_notequals == <<"n","o","t","e","q","u","a","l","s">>
S_lt == <<"l","t">>
S_lte == <<"l","t","e">>
S_gt == <<"g","t">>
S_gte == <<"g","t","e">>
S_eq == <<"e","q">>
S_neq == <<"n","e","q">>
S_ALL_BANDS == <<"A","L","L"," ","B","A","N","D","S">>

(***************************************************************************)
(* Python values as json.loads returns them and as the filter stores them: *)
(* t is "str", "int", "lit" (true/false/null) or "list".                   *)
(***************************************************************************)
PyStr(s) == [t |-> "str", n |-> 0, chars |-> s, elems |-> <<>>]
PyInt(k) == [t |-> "int", n |-> k, chars |-> <<>>, elems |-> <<>>]
PyLit(s) == [t |-> "lit", n |-> 0, chars |-> s, elems |-> <<>>]
PyList(e) == [t |-> "list", n |-> 0, chars |-> <<>>, elems |-> e]

(***************************************************************************)
(* json.loads on the subset of JSON the filter values use: integers,       *)
(* strings without escapes, true/false/null and arrays of these, with      *)
(* optional white space.  Anything else is a JSONDecodeError (ok = FALSE). *)
(* Objects and fractions are outside the subset; no input of the model     *)
(* uses them.                                                              *)
(***************************************************************************)
Digits == <<"0","1","2","3","4","5","6","7","8","9">>
IsDigit(c) == \E k \in 1..10 : Digits[k] = c
DigitVal(c) == (CHOOSE k \in 1..10 : Digits[k] = c) - 1

JsonFail == [ok |-> FALSE, val |-> PyInt(0), pos |-> 0]
JsonOk(v, p) == [ok |-> TRUE, val |-> v, pos |-> p]

RECURSIVE SkipWs(_, _)
SkipWs(s, p) ==
    IF p <= Len(s) /\ s[p] \in {" ", "\t", "\n", "\r"} THEN SkipWs(s, p + 1) ELSE p

RECURSIVE ScanDigits(_, _, _)
ScanDigits(s, p, acc) ==
    IF p <= Len(s) /\ IsDigit(s[p])
    THEN ScanDigits(s, p + 1, acc * 10 + DigitVal(s[p]))
    ELSE [n |-> acc, pos |-> p]

\* an integer: -? (0 | [1-9][0-9]*)
ParseNumber(s, p) ==
    LET neg == p <= Len(s) /\ s[p] = "-"
        q == IF neg THEN p + 1 ELSE p
    IN  IF q > Len(s) \/ ~IsDigit(s[q]) THEN JsonFail
        ELSE IF s[q] = "0" THEN JsonOk(PyInt(0), q + 1)
        ELSE LET d == ScanDigits(s, q, 0)
             IN  JsonOk(PyInt(IF neg THEN 0 - d.n ELSE d.n), d.pos)

RECURSIVE ScanString(_, _, _)
ScanString(s, p, acc) ==
    IF p > Len(s) \/ s[p] = "\\" THEN JsonFail
    ELSE IF s[p] = "\"" THEN JsonOk(PyStr(acc), p + 1)
    ELSE ScanString(s, p + 1, Append(acc, s[p]))

ParseLiteral(s, p, word) ==
    IF p + Len(word) - 1 <= Len(s) /\ SubSeq(s, p, p + Len(word) - 1) = word
    THEN JsonOk(PyLit(word), p + Len(word))
    ELSE JsonFail

RECURSIVE ParseValue(_, _)
RECURSIVE ParseElems(_, _, _)
ParseValue(s, p) ==
    LET q == SkipWs(s, p)
    IN  IF q > Len(s) THEN JsonFail
        ELSE IF s[q] = "[" THEN
            LET r == SkipWs(s, q + 1)
            IN  IF r <= Len(s) /\ s[r] = "]" THEN JsonOk(PyList(<<>>), r + 1)
                ELSE ParseElems(s, r, <<>>)
        ELSE IF s[q] = "\"" THEN ScanString(s, q + 1, <<>>)
        ELSE IF s[q] = "-" \/ IsDigit(s[q]) THEN ParseNumber(s, q)
        ELSE IF s[q] = "t" THEN ParseLiteral(s, q, <<"t","r","u","e">>)
        ELSE IF s[q] = "f" THEN ParseLiteral(s, q, <<"f","a","l","s","e">>)
        ELSE IF s[q] = "n" THEN ParseLiteral(s, q, <<"n","u","l","l">>)
        ELSE JsonFail

ParseElems(s, p, acc) ==
    LET r == ParseValue(s, p)
    IN  IF ~r.ok THEN JsonFail
        ELSE LET q == SkipWs(s, r.pos)
             IN  IF q > Len(s) THEN JsonFail
                 ELSE IF s[q] = "," THEN ParseElems(s, q + 1, Append(acc, r.val))
                 ELSE IF s[q] = "]" THEN JsonOk(PyList(Append(acc, r.val)), q + 1)
                 ELSE JsonFail

\* json.loads(s): one value, then nothing but white space
json_loads(s) ==
    LET r == ParseValue(s, 1)
    IN  IF r.ok /\ SkipWs(s, r.pos) = Len(s) + 1 THEN r ELSE JsonFail

(***************************************************************************)
(* Python dict operations; a dict is a function on its keys.               *)
(***************************************************************************)
EmptyDict == <<>>
DictSet(d, k, v) == [x \in (DOMAIN d) \cup {k} |-> IF x = k THEN v ELSE d[x]]

(***************************************************************************)
(* query_stac_api: the filter-row loop.                                    *)
(***************************************************************************)
operators ==
    (S_lessthan :> S_lt) @@ (S_lessthanequals :> S_lte) @@
    (S_greaterthan :> S_gt) @@ (S_greaterthanequals :> S_gte) @@
    (S_equals :> S_eq) @@ (S_notequals :> S_neq)

\* row = [index[1:-1] for index in props_query.getRow(i).split(" ")]
RowTokens(line) ==
    LET parts == StrSplit(line) IN [k \in 1..Len(parts) |-> Slice1m1(parts[k])]

\* field = "eo:cloud_cover" if row[0].lower() == "cloudcover" else row[0]
FilterField(row) ==
    IF StrLower(row[1]) = S_cloudcover THEN S_eo_cloud_cover ELSE row[1]

\* faulty variant: the operator table looked up without lower-casing the token
FilterOpCaseSensitive(row) ==
    IF row[2] \in DOMAIN operators THEN operators[row[2]] ELSE row[2]

\* op = operators[row[1].lower()] if row[1].lower() in operators else row[1]
FilterOp(row) ==
    IF StrLower(row[2]) \in DOMAIN operators THEN operators[StrLower(row[2])] ELSE row[2]

\* Landsat and NAIP: val = row[2], replaced by json.loads(val) when that is a list
DecodedValue(val) ==
    LET decoded_val == json_loads(val)
    IN  IF decoded_val.ok /\ decoded_val.val.t = "list" THEN decoded_val.val ELSE PyStr(val)

\* Sentinel-2: val = row[2]
RawValue(val) == PyStr(val)

FilterValue(pl, row) ==
    IF pl = "sentinel2" THEN RawValue(row[3]) ELSE DecodedValue(row[3])

\* faulty variant: query_filter.update(row_filter) on every row, which replaces the
\* field's whole object
MergeClauseReplace(qf, field, op, val) ==
    DictSet(qf, field, DictSet(EmptyDict, op, val))

\* if field in query_filter: query_filter[field].update(op_val)
\* else: query_filter.update(row_filter)
MergeClause(qf, field, op, val) ==
    IF field \in DOMAIN qf
    THEN [qf EXCEPT ![field] = DictSet(@, op, val)]
    ELSE DictSet(qf, field, DictSet(EmptyDict, op, val))

\* one iteration of the loop over props_query
CompileRow(pl, qf, line) ==
    LET row == RowTokens(line)
    IN  MergeClause(qf, FilterField(row), FilterOp(row), FilterValue(pl, row))

(***************************************************************************)
(* Filter rows the model feeds the compiler: the value table renders a row *)
(* as three quote-wrapped tokens separated by single spaces.               *)
(***************************************************************************)
In_CloudCover == <<"C","l","o","u","d","C","o","v","e","r">>
In_platform == <<"p","l","a","t","f","o","r","m">>
In_GreaterThanEquals == <<"G","r","e","a","t","e","r","T","h","a","n","E","q","u","a","l","s">>
In_EQUALS == <<"E","Q","U","A","L","S">>
In_LT == <<"L","T">>
In_20 == <<"2","0">>
In_list == <<"[","1",",","\"","a","\"","]">>
In_abc == <<"a","b","c">>

In_LessThanEquals == <<"L","e","s","s","T","h","a","n","E","q","u","a","l","s">>
In_greaterThan == <<"g","r","e","a","t","e","r","T","h","a","n">>
In_NOTEQUALS == <<"N","O","T","E","Q","U","A","L","S">>

FieldTokens == {In_CloudCover, In_platform}
OpTokens == {S_lessthan, In_GreaterThanEquals, In_EQUALS, In_LT}
ValueTokens == {In_20, In_list, In_abc}

Quoted(s) == <<"'">> \o s \o <<"'">>
RowLine(f, o, v) == Quoted(f) \o <<" ">> \o Quoted(o) \o <<" ">> \o Quoted(v)
\* the remaining entries of the operator table, and the alias in lower case,
\* each in one row
MoreOpTokens == {In_LessThanEquals, In_greaterThan, In_NOTEQUALS}
RowLines ==
    {RowLine(f, o, v) : f \in FieldTokens, o \in OpTokens, v \in ValueTokens}
    \cup {RowLine(In_platform, o, In_20) : o \in MoreOpTokens}
    \cup {RowLine(S_cloudcover, S_lessthan, In_20)}

SeqsUpTo(S, n) == UNION {[1..k -> S] : k \in 0..n}

(***************************************************************************)
(* The parts of the state a specification does not use.                    *)
(***************************************************************************)
FilterIdle == props_query = <<>> /\ row_i = 0 /\ query_filter = EmptyDict
QueryIdle ==
    /\ limit = 0 /\ get_all_items = FALSE /\ catalog = <<>> /\ url = <<>>
    /\ all_items = <<>> /\ requests = <<>> /\ items = <<>>
\* the manifest file before open(input_data, mode="w")
NoFile == [exists |-> FALSE, open |-> FALSE, header |-> <<>>, lines |-> <<>>]
\* AddRastersToMosaicDataset not called yet
NotIngested == [called |-> FALSE, raster_type |-> "", input |-> NoFile]

MosaicIdle ==
    /\ stac_items = <<>> /\ processing_template = <<>> /\ item_i = 0
    /\ rows = <<>> /\ warnings = <<>> /\ catalogs = <<>>
    /\ table_file = NoFile /\ ingested = NotIngested

\* query["collections"] = [collection_id]
BaseQuery(pl) ==
    DictSet(EmptyDict, "collections",
            <<CASE pl = "landsat" -> "landsat-c2-l2"
                [] pl = "sentinel2" -> "sentinel-2-l2a"
                [] pl = "naip" -> "naip">>)

(***************************************************************************)
(* SpecFilter: query_stac_api from query_filter = {} to query["query"].    *)
(***************************************************************************)
InitFilter ==
    /\ pipeline \in Pipelines
    /\ pc = "filter"
    /\ error = ""
    /\ props_query \in SeqsUpTo(RowLines, MaxRows)
    /\ row_i = 0
    /\ query_filter = EmptyDict
    /\ query = BaseQuery(pipeline)
    /\ QueryIdle
    /\ MosaicIdle

\* for i in range(props_query.rowCount): one iteration
FilterRow ==
    /\ pc = "filter"
    /\ row_i < Len(props_query)
    /\ query_filter' = CompileRow(pipeline, query_filter, props_query[row_i + 1])
    /\ row_i' = row_i + 1
    /\ UNCHANGED <<pipeline, pc, error, props_query, query, queryVars, mosaicVars>>

\* if query_filter: query["query"] = query_filter
FilterDone ==
    /\ pc = "filter"
    /\ row_i = Len(props_query)
    /\ query' = IF DOMAIN query_filter # {}
                THEN DictSet(query, "query", query_filter)
                ELSE query
    /\ pc' = "filtered"
    /\ UNCHANGED <<pipeline, error, filterVars, queryVars, mosaicVars>>

NextFilter == FilterRow \/ FilterDone

SpecFilter == InitFilter /\ [][NextFilter]_vars

(***************************************************************************)
(* Claims about the filter compiler (SpecFilter).                          *)
(*                                                                         *)
(* The triple a row line was rendered from, and what each token of the     *)
(* model's inputs is expected to compile to, written out token by token.   *)
(***************************************************************************)
AllOpTokens == OpTokens \cup MoreOpTokens
TripleTable ==
    [line \in RowLines |->
        CHOOSE t \in (FieldTokens \cup {S_cloudcover}) \X AllOpTokens \X ValueTokens :
            RowLine(t[1], t[2], t[3]) = line]
TripleOf(line) == TripleTable[line]

ExpectedField(f) ==
    CASE f = S_cloudcover -> S_eo_cloud_cover
      [] f = In_CloudCover -> S_eo_cloud_cover
      [] f = In_platform -> In_platform

ExpectedOp(o) ==
    CASE o = S_lessthan -> S_lt
      [] o = In_LessThanEquals -> S_lte
      [] o = In_greaterThan -> S_gt
      [] o = In_GreaterThanEquals -> S_gte
      [] o = In_EQUALS -> S_eq
      [] o = In_NOTEQUALS -> S_neq
      [] o = In_LT -> In_LT

ExpectedValue(v) ==
    CASE v = In_list -> PyList(<<PyInt(1), PyStr(<<"a">>)>>)
      [] v = In_20 -> PyStr(In_20)
      [] v = In_abc -> PyStr(In_abc)

Processed == 1..row_i
RowTriple(k) == TripleOf(props_query[k])
RowField(k) == ExpectedField(RowTriple(k)[1])
RowOp(k) == ExpectedOp(RowTriple(k)[2])
\* the last processed row with the field and operator of row k
LastLike(k) ==
    CHOOSE j \in Processed :
        /\ RowField(j) = RowField(k) /\ RowOp(j) = RowOp(k)
        /\ \A m \in Processed :
              RowField(m) = RowField(k) /\ RowOp(m) = RowOp(k) => m <= j

\* C5: rows sharing a field compile to one object under that field, keyed by
\* operator; of rows with the same field and operator only the later row's
\* value is kept, rows with other operators on the field are all kept; and
\* an empty value table puts no "query" term into the request.
C5_MergedPerField ==
    pc \in {"filter", "filtered"} =>
        /\ DOMAIN query_filter = {RowField(k) : k \in Processed}
        /\ \A F \in DOMAIN query_filter :
              DOMAIN query_filter[F]
                  = {RowOp(k) : k \in {j \in Processed : RowField(j) = F}}
        /\ \A k \in Processed :
              query_filter[RowField(k)][RowOp(k)]
                  = FilterValue(pipeline, RowTriple(LastLike(k)))
        /\ pc = "filtered" =>
              /\ ("query" \in DOMAIN query) <=> (props_query # <<>>)
              /\ props_query # <<>> => query["query"] = query_filter

\* C5 witness: two processed rows with the same field and operator and
\* different values, and the request assembled.
C5_Witness ==
    /\ pc = "filtered" /\ row_i = 2
    /\ RowField(1) = RowField(2) /\ RowOp(1) = RowOp(2)
    /\ RowTriple(1)[3] # RowTriple(2)[3]
    /\ DOMAIN query_filter[RowField(1)] = {RowOp(1)}

\* C6: a row's operator key is the table's symbol when the token matches a
\* table entry in any letter case and the token itself, case preserved,
\* otherwise; "cloudcover" in any case compiles to "eo:cloud_cover" and any
\* other field name is kept.
C6_OperatorAndFieldKeys ==
    pc \in {"filter", "filtered"} =>
        /\ \A k \in Processed :
              /\ RowField(k) \in DOMAIN query_filter
              /\ RowOp(k) \in DOMAIN query_filter[RowField(k)]
        /\ \A F \in DOMAIN query_filter :
              /\ \E k \in Processed : F = RowField(k)
              /\ \A O \in DOMAIN query_filter[F] :
                    \E k \in Processed : F = RowField(k) /\ O = RowOp(k)

\* C6 witness: a mixed-case table operator on "CloudCover" and an unknown
\* upper-case operator on another field, both compiled.
C6_Witness ==
    /\ row_i = 2
    /\ RowTriple(1)[1] = In_CloudCover /\ RowTriple(1)[2] = In_GreaterThanEquals
    /\ RowTriple(2)[1] = In_platform /\ RowTriple(2)[2] = In_LT
    /\ S_gte \in DOMAIN query_filter[S_eo_cloud_cover]
    /\ In_LT \in DOMAIN query_filter[In_platform]

\* C7: in each of the three pipelines a value literal that parses as a JSON
\* list is stored as the parsed list, and any other literal as the raw string.
C7_ValueParsedInAllPipelines ==
    pc \in {"filter", "filtered"} =>
        \A k \in Processed :
            query_filter[RowField(k)][RowOp(k)]
                = ExpectedValue(RowTriple(LastLike(k))[3])

(***************************************************************************)
(* The catalog the model queries.  A response is what requests.post gives  *)
(* back: status code, content-type header (NoHeader when absent), and the  *)
(* JSON body's "type" (has_type = FALSE when the key is absent),           *)
(* "features" and "links".  Page j is served at PageUrl(j); page 1 is the  *)
(* search endpoint.  A feature is named by its page and position, so every *)
(* feature of a catalog is distinct.                                       *)
(***************************************************************************)
SearchUrl == "https://planetarycomputer.microsoft.com/api/stac/v1/search"
PageUrl(j) == <<SearchUrl, j>>
NextBody(j) == [token |-> j]
AcceptedContentTypes ==
    {"application/json", "application/geo+json", "application/json;charset=utf-8"}
NoHeader == "(no content-type)"

NextLink(j) == [rel |-> "next", href |-> PageUrl(j), body |-> NextBody(j)]
SelfLink(j) == [rel |-> "self", href |-> PageUrl(j), body |-> NextBody(j)]
\* links of a page that is followed by another one (the next link first or
\* last), and of a last page (no link at all, or only its own)
NextLayout(j, nextFirst) ==
    IF nextFirst THEN <<NextLink(j + 1), SelfLink(j)>> ELSE <<SelfLink(j), NextLink(j + 1)>>
LastLayout(j, empty) == IF empty THEN <<>> ELSE <<SelfLink(j)>>

Features(j, n) == [k \in 1..n |-> <<j, k>>]

\* status code, content type, has_type, type of a well-formed answer and of
\* the ill-formed ones
GoodHeads ==
    {<<200, c, TRUE, "FeatureCollection">> : c \in AcceptedContentTypes}
BadHeads ==
    { <<500, "application/json", TRUE, "FeatureCollection">>,
      <<200, "text/html", TRUE, "FeatureCollection">>,
      <<200, NoHeader, TRUE, "FeatureCollection">>,
      <<200, "application/geo+json", FALSE, "">>,
      <<200, "application/geo+json", TRUE, "Feature">> }
DefaultHead == <<200, "application/geo+json", TRUE, "FeatureCollection">>

Response(head, features, links) ==
    [status_code |-> head[1], content_type |-> head[2], has_type |-> head[3],
     type |-> head[4], features |-> features, links |-> links]

\* a catalog of n pages: every page but the last links to the next one, the
\* last does not; counts[j] features on page j; shape[j] picks the layout of
\* page j's links; page special[1], if any, has head special[2]
Catalog(n, counts, shape, special) ==
    [j \in 1..n |->
        Response(IF j = special[1] THEN special[2] ELSE DefaultHead,
                 Features(j, counts[j]),
                 IF j < n THEN NextLayout(j, shape[j]) ELSE LastLayout(j, shape[j]))]
SpecialPages(n) ==
    {<<0, DefaultHead>>} \cup ((1..n) \X ((GoodHeads \cup BadHeads) \ {DefaultHead}))

NotFound == Response(<<404, "text/html", FALSE, "">>, <<>>, <<>>)
\* requests.post(url, json=query): the catalog's answer
Serve(u) ==
    IF \E j \in 1..Len(catalog) : PageUrl(j) = u
    THEN catalog[CHOOSE j \in 1..Len(catalog) : PageUrl(j) = u]
    ELSE NotFound

LimitValues == {-1, 0, 2}
DefaultPageSize == 1000

(***************************************************************************)
(* get_items and the end of query_stac_api.                                *)
(***************************************************************************)
\* faulty variant: only the status code is tested
ResponseInvalidStatusOnly(data) == data.status_code # 200

\* data.status_code != 200 or data.headers.get("content-type") not in [...]
ResponseInvalid(data) ==
    data.status_code # 200 \/ data.content_type \notin AcceptedContentTypes

\* "type" not in json_data or json_data["type"] != "FeatureCollection"
JsonInvalid(data) == ~data.has_type \/ data.type # "FeatureCollection"

\* faulty variant: the first page is never returned on its own
ReturnsFirstPageNever(g) == FALSE

\* if not get_all_items: return items
ReturnsFirstPage(g) == ~g

\* faulty variant: the test can never hold
NoItemsNever(its) == Len(its) < 0

\* if len(items) < 1: raise
NoItems(its) == Len(its) < 1

ErrInvalidResponse == "RuntimeError: Invalid Response"
ErrInvalidJson == "RuntimeError: Invalid JSON Response from the STAC API"
ErrIndex == "IndexError: list index out of range"
ErrNoItems == "RuntimeError: No STAC items found"

InitQuery ==
    /\ pipeline \in Pipelines
    /\ pc = "limit"
    /\ error = ""
    /\ FilterIdle
    /\ query = BaseQuery(pipeline)
    /\ limit \in LimitValues
    /\ get_all_items = FALSE
    /\ \E n \in 1..MaxPages :
          \E counts \in [1..n -> 0..MaxFeatures], shape \in [1..n -> BOOLEAN],
             special \in SpecialPages(n) :
              catalog = Catalog(n, counts, shape, special)
    /\ url = <<>>
    /\ all_items = <<>>
    /\ requests = <<>>
    /\ items = <<>>
    /\ MosaicIdle

\* get_all_items = False; if limit > 0: ... else: ...; then get_items is
\* entered: url = ".../search", all_items = []
SetLimit ==
    /\ pc = "limit"
    /\ IF limit > 0
       THEN query' = DictSet(query, "limit", limit) /\ get_all_items' = FALSE
       ELSE query' = DictSet(query, "limit", DefaultPageSize) /\ get_all_items' = TRUE
    /\ url' = PageUrl(1)
    /\ all_items' = <<>>
    /\ pc' = "get_items"
    /\ UNCHANGED <<pipeline, error, filterVars, limit, catalog, requests, items,
                   mosaicVars>>

\* one iteration of "while more_items"
GetItemsPage ==
    /\ pc = "get_items"
    /\ requests' = Append(requests, <<url, query>>)
    /\ LET data == Serve(url)
           next_request == data.links[1]
       IN  IF ResponseInvalid(data) THEN
               /\ pc' = "raised" /\ error' = ErrInvalidResponse
               /\ UNCHANGED <<url, query, all_items, items>>
           ELSE IF JsonInvalid(data) THEN
               /\ pc' = "raised" /\ error' = ErrInvalidJson
               /\ UNCHANGED <<url, query, all_items, items>>
           ELSE IF ReturnsFirstPage(get_all_items) THEN
               /\ pc' = "got_items" /\ items' = data.features
               /\ UNCHANGED <<url, query, all_items, error>>
           ELSE
               /\ all_items' = all_items \o data.features
               /\ IF Len(data.links) = 0 THEN
                      /\ pc' = "raised" /\ error' = ErrIndex
                      /\ UNCHANGED <<url, query, items>>
                  ELSE IF next_request.rel = "next" THEN
                      /\ url' = next_request.href
                      /\ query' = next_request.body
                      /\ UNCHANGED <<pc, error, items>>
                  ELSE
                      /\ pc' = "got_items" /\ items' = all_items'
                      /\ UNCHANGED <<url, query, error>>
    /\ UNCHANGED <<pipeline, filterVars, limit, get_all_items, catalog, mosaicVars>>

\* if len(items) < 1: raise RuntimeError(...); return items
CheckItems ==
    /\ pc = "got_items"
    /\ IF NoItems(items)
       THEN pc' = "raised" /\ error' = ErrNoItems
       ELSE pc' = "returned" /\ error' = error
    /\ UNCHANGED <<pipeline, filterVars, query, queryVars, mosaicVars>>

NextQuery == SetLimit \/ GetItemsPage \/ CheckItems

SpecQuery == InitQuery /\ [][NextQuery]_vars

(***************************************************************************)
(* Claims about the catalog query client (SpecQuery).                      *)
(***************************************************************************)
\* the run has left get_items
Ended == pc \in {"got_items", "returned", "raised"}
\* get_items returned to query_stac_api (it raised nothing itself)
GetItemsReturned == Ended /\ error \in {"", ErrNoItems}

\* a page as the claims describe a valid one
ValidPage(r) ==
    /\ r.status_code = 200
    /\ r.content_type \in {"application/json", "application/geo+json",
                            "application/json;charset=utf-8"}
    /\ r.has_type /\ r.type = "FeatureCollection"

HasNextLink(r) == \E k \in 1..Len(r.links) : r.links[k].rel = "next"
TheNextLink(r) == r.links[CHOOSE k \in 1..Len(r.links) : r.links[k].rel = "next"]

\* the features of pages 1..n, in page order
RECURSIVE PagesConcat(_)
PagesConcat(n) == IF n = 0 THEN <<>> ELSE PagesConcat(n - 1) \o catalog[n].features

\* C1: in unbounded mode, on a catalog of N valid pages of which every page
\* but the last carries a next link somewhere in its links and the last
\* carries none, get_items ends by returning the N pages' features in page
\* order after exactly N requests, request k+1 going to the href and with
\* the body of page k's next link.
C1_UnboundedFetchesEveryPage ==
    ( /\ limit <= 0
      /\ Ended
      /\ \A j \in 1..Len(catalog) :
            /\ ValidPage(catalog[j])
            /\ HasNextLink(catalog[j]) <=> j < Len(catalog) ) =>
        /\ GetItemsReturned
        /\ Len(requests) = Len(catalog)
        /\ items = PagesConcat(Len(catalog))
        /\ \A k \in 1..(Len(requests) - 1) :
              requests[k + 1]
                  = <<TheNextLink(catalog[k]).href, TheNextLink(catalog[k]).body>>

\* C2: with an explicit positive limit the request carries that limit, one
\* request is issued, and the features of the first page are returned in
\* the catalog's order, whether or not the page carries a next link.
C2_ExplicitLimitFirstPageOnly ==
    limit > 0 =>
        /\ Len(requests) <= 1
        /\ Len(requests) = 1 =>
              /\ requests[1][1] = PageUrl(1)
              /\ requests[1][2]["limit"] = limit
        /\ pc = "returned" => Len(requests) = 1 /\ items = catalog[1].features
        /\ Ended /\ ValidPage(catalog[1]) /\ catalog[1].features # <<>> =>
              pc \in {"got_items", "returned"} /\ items = catalog[1].features

\* C2 witness: an explicit limit, a first page with features and a next link,
\* and the run returned.
C2_Witness ==
    /\ limit > 0 /\ pc = "returned"
    /\ Len(catalog) >= 2 /\ HasNextLink(catalog[1])
    /\ Len(items) >= 1 /\ Len(requests) = 1

\* C3: in either mode and after any number of pages, query_stac_api returns
\* normally only a non-empty sequence, and fails with the empty-result error
\* exactly when the sequence get_items handed back has no element.
C3_EmptyResultRaises ==
    /\ pc = "returned" => Len(items) >= 1 /\ error = ""
    /\ pc \in {"returned", "raised"} /\ GetItemsReturned =>
          /\ items = IF limit > 0 THEN catalog[1].features
                     ELSE PagesConcat(Len(requests))
          /\ (Len(items) = 0) <=> (pc = "raised" /\ error = ErrNoItems)

\* C3 witness: an unbounded query that fetched more than one page, found no
\* feature, and ended with the empty-result error.
C3_Witness ==
    /\ limit <= 0 /\ Len(requests) >= 2
    /\ pc = "raised" /\ error = ErrNoItems

\* C4: when the answer to request k has a status other than 200, a content
\* type outside the three accepted ones, or a body without type
\* "FeatureCollection", get_items fails there: request k is the last one and
\* the caller receives no items, whatever was accumulated before.
C4_InvalidPageAborts ==
    \A k \in 1..Len(requests) :
        /\ requests[k][1] = PageUrl(k)
        /\ ~ValidPage(catalog[k]) =>
              /\ pc = "raised"
              /\ error \in {ErrInvalidResponse, ErrInvalidJson}
              /\ Len(requests) = k
              /\ items = <<>>

\* C4 witness: the second page of an unbounded query is invalid after a
\* first page whose features were accumulated.
C4_Witness ==
    /\ limit <= 0 /\ Len(requests) = 2
    /\ ~ValidPage(catalog[2]) /\ Len(all_items) >= 1
    /\ pc = "raised" /\ items = <<>>

(***************************************************************************)
(* add_rasters_to_md: the template tables and the row projector.           *)
(*                                                                         *)
(* Template labels are character sequences (the code upper-cases the       *)
(* requested one).  Item ids and asset keys are looked up and copied only; *)
(* a formatted string is the concatenation of its pieces.  Of a row the    *)
(* model keeps the columns PixelType, Name, ProductName and GroupName; the *)
(* path, extent, shape, band count, SRS and date columns are copied from   *)
(* the item and are left out.                                              *)
(***************************************************************************)
L_Multiband == <<"M","u","l","t","i","b","a","n","d">>
L_QA == <<"Q","A">>
L_Surface_Temperature == <<"S","u","r","f","a","c","e"," ","T","e","m","p","e","r","a","t","u","r","e">>
L_Surface_Reflectance == <<"S","u","r","f","a","c","e"," ","R","e","f","l","e","c","t","a","n","c","e">>
L_Multispectral == <<"M","u","l","t","i","s","p","e","c","t","r","a","l">>
L_Aerosol_Optical_Thickness == <<"A","e","r","o","s","o","l"," ","O","p","t","i","c","a","l"," ","T","h","i","c","k","n","e","s","s">>
L_BOA_Reflectance == <<"B","O","A"," ","R","e","f","l","e","c","t","a","n","c","e">>
L_BOA_Reflectance_10m == <<"B","O","A"," ","R","e","f","l","e","c","t","a","n","c","e","-","1","0","m">>
L_SCL_20m == <<"S","C","L","-","2","0","m">>
L_True_Color == <<"T","r","u","e"," ","C","o","l","o","r">>
L_Water_Vapor == <<"W","a","t","e","r"," ","V","a","p","o","r">>
In_All_Bands == <<"A","l","l"," ","B","a","n","d","s">>

\* s[a:b] with Python's clamping and negative indices
PyIndex(s, i) ==
    IF i < 0 THEN (IF Len(s) + i < 0 THEN 0 ELSE Len(s) + i)
    ELSE (IF i > Len(s) THEN Len(s) ELSE i)
PySlice(s, a, b) == SubSeq(s, PyIndex(s, a) + 1, PyIndex(s, b))

\* Landsat: module constants
sr_tifs == <<"coastal", "blue", "green", "red", "nir08", "swir16", "swir22">>
qa_band == "qa_pixel"
sr_cloud_band == "cloud_qa"
level1_nir2_band == "nir09"
pixel_type_map == [uint16 |-> "U16", uint8 |-> "U8"]

\* Sentinel-2: module constants
tifs == <<"B01", "B02", "B03", "B04", "B05", "B06", "B07", "B08", "B8A", "B09",
          "B11", "B12", "AOT", "WVP", "SCL", "visual">>

Template(label, bands) == [label |-> label, bands |-> bands]

\* Sentinel-2: template_map, in the order of the dict literal
template_map ==
    << Template(L_Aerosol_Optical_Thickness, PySlice(tifs, -4, -3)),
       Template(L_BOA_Reflectance, PySlice(tifs, 0, -4)),
       Template(L_BOA_Reflectance_10m, PySlice(tifs, 1, 4) \o PySlice(tifs, 7, 8)),
       Template(L_Multiband, PySlice(tifs, 0, -1)),
       Template(L_SCL_20m, PySlice(tifs, -2, -1)),
       Template(L_True_Color, PySlice(tifs, -1, Len(tifs))),
       Template(L_Water_Vapor, PySlice(tifs, -3, -2)) >>

\* level_2_product = item["collection"] == "landsat-c2-l2"
Level2Product(item) == item.collection = "landsat-c2-l2"

\* faulty variant: only landsat-8 counts as an OLI/TIRS platform
OliTirsLandsat8Only(item) == item.platform = "landsat-8"

\* oli_tirs = True if props["platform"] in ["landsat-8", "landsat-9"] else False
OliTirs(item) == item.platform \in {"landsat-8", "landsat-9"}

\* faulty variant: every Level-2 item counts as a surface-temperature product
StProductAnyLevel2(item) == item.correction \in {"L2SP", "L2SR"}

\* st_product = True if props["landsat:correction"] == "L2SP" else False
StProduct(item) == item.correction = "L2SP"

\* Landsat: the template_map built for one item, in insertion order
LandsatTemplateMap(item) ==
    LET level_2_product == Level2Product(item)
        oli_tirs == OliTirs(item)
        st_product == StProduct(item)
        sr_bands ==
            IF oli_tirs THEN sr_tifs
            ELSE IF level_2_product THEN PySlice(sr_tifs, 1, Len(sr_tifs))
            ELSE PySlice(sr_tifs, 2, 5) \o <<level1_nir2_band>>
        st_band == IF oli_tirs THEN "lwir11" ELSE "lwir"
        mb_first == sr_bands \o (IF st_product THEN <<st_band, qa_band>> ELSE <<qa_band>>)
        mb_bands ==
            IF level_2_product /\ ~oli_tirs THEN Append(mb_first, sr_cloud_band)
            ELSE mb_first
    IN  << Template(L_Multiband, mb_bands), Template(L_QA, <<qa_band>>) >>
        \o (IF st_product
            THEN << Template(L_Surface_Temperature, <<st_band>>),
                    Template(L_Surface_Reflectance, sr_bands) >>
            ELSE << Template(L_Multispectral, sr_bands) >>)

\* list(template_map.keys())
TemplateKeys(tm) == [k \in 1..Len(tm) |-> tm[k].label]
HasTemplate(tm, label) == \E k \in 1..Len(tm) : tm[k].label = label
\* template_map[label]
TemplateBands(tm, label) == tm[CHOOSE k \in 1..Len(tm) : tm[k].label = label].bands
\* template_map.get(label): the band list, or <<>> for None (both are falsy)
TemplateGet(tm, label) == IF HasTemplate(tm, label) THEN TemplateBands(tm, label) ELSE <<>>

\* faulty variant: the label compared without upper-casing it
AllBandsCaseSensitive(pt) == pt = S_ALL_BANDS

\* all_bands = True if processing_template.upper() == "ALL BANDS" else False
AllBands(pt) == StrUpper(pt) = S_ALL_BANDS

\* all_templates = list(template_map.keys()) if all_bands else [processing_template]
AllTemplates(tm, pt) == IF AllBands(pt) THEN TemplateKeys(tm) ELSE <<pt>>

ErrAssetKey == "KeyError: item['assets'][asset_key]"
ErrPixelType == "KeyError: pixel_type_map[data_type]"
ErrTemplateKey == "KeyError: template_map[apply_template]"
ErrIngest == "ExecuteError: AddRastersToMosaicDataset"

\* the column names written as the manifest's first line
fields(pl) ==
    <<"Raster", "xMin", "yMin", "xMax", "yMax", "nRows", "nCols", "nBands",
      "PixelType", "SRS", "Name", "AcquisitionDate">>
    \o (IF pl = "naip" THEN <<>> ELSE <<"ProductName", "GroupName">>)

\* the exception get_row raises for this asset, "" when it returns a row
GetRowError(pl, item, asset_key) ==
    IF asset_key \notin DOMAIN item.assets THEN ErrAssetKey
    ELSE IF pl = "landsat" /\ item.assets[asset_key].data_type \notin DOMAIN pixel_type_map
    THEN ErrPixelType
    ELSE ""

\* get_row(item, asset_key, apply_template, all_bands); NAIP: get_row(item),
\* whose only asset is "image" and whose rows have no template columns
get_row(pl, item, asset_key, apply_template, all_bands) ==
    IF pl = "naip" THEN [ PixelType |-> "U8", Name |-> item.id ]
    ELSE
    [ PixelType |->
          IF pl = "landsat" THEN pixel_type_map[item.assets[asset_key].data_type]
          ELSE IF \E k \in 1..Len(PySlice(tifs, -2, Len(tifs))) :
                     PySlice(tifs, -2, Len(tifs))[k] = asset_key
          THEN "U8" ELSE "U16",
      Name |-> item.id \o <<"-", asset_key>>,
      ProductName |-> apply_template,
      GroupName |-> IF all_bands THEN item.id \o <<"_">> \o apply_template ELSE item.id ]

\* arcpy.AddWarning(f"{apply_template} template is not supported for Item: {item['id']}")
TemplateWarning(apply_template, item) ==
    apply_template \o <<" template is not supported for Item: ">> \o item.id

(***************************************************************************)
(* The body of "for item in stac_items" as the list of its steps in order: *)
(* per template either one warning (the template is not in the item's map) *)
(* or one get_row call per asset key.                                      *)
(***************************************************************************)
TemplateSteps(tm, apply_template) ==
    LET asset_keys == TemplateGet(tm, apply_template)
    IN  IF asset_keys = <<>>
        THEN << [kind |-> "warn", template |-> apply_template, asset |-> ""] >>
        ELSE [k \in 1..Len(asset_keys) |->
                 [kind |-> "row", template |-> apply_template, asset |-> asset_keys[k]]]

RECURSIVE ItemSteps(_, _)
ItemSteps(tm, templates) ==
    IF templates = <<>> THEN <<>>
    ELSE TemplateSteps(tm, Head(templates)) \o ItemSteps(tm, Tail(templates))

StepFails(pl, item, step) ==
    step.kind = "row" /\ GetRowError(pl, item, step.asset) # ""

\* the steps that run: all of them, or those before the first get_row that raises
StepsRun(pl, item, steps) ==
    IF \E k \in 1..Len(steps) : StepFails(pl, item, steps[k])
    THEN SubSeq(steps, 1, (CHOOSE k \in 1..Len(steps) :
                              /\ StepFails(pl, item, steps[k])
                              /\ \A j \in 1..(k - 1) : ~StepFails(pl, item, steps[j])) - 1)
    ELSE steps

StepsError(pl, item, steps) ==
    IF Len(StepsRun(pl, item, steps)) = Len(steps) THEN ""
    ELSE GetRowError(pl, item, steps[Len(StepsRun(pl, item, steps)) + 1].asset)

IsRowStep(step) == step.kind = "row"
IsWarnStep(step) == step.kind = "warn"

\* rows appended by the steps run for item number i; each entry keeps, next
\* to the row, the item and asset key it was made from
RowsOf(pl, i, item, steps, all_bands) ==
    LET run == SelectSeq(steps, IsRowStep)
    IN  [k \in 1..Len(run) |->
            [item |-> i, asset_key |-> run[k].asset,
             row |-> get_row(pl, item, run[k].asset, run[k].template, all_bands)]]

WarningsOf(item, steps) ==
    LET run == SelectSeq(steps, IsWarnStep)
    IN  [k \in 1..Len(run) |-> TemplateWarning(run[k].template, item)]

(***************************************************************************)
(* The items the model hands to add_rasters_to_md.  query_stac_api never   *)
(* returns an empty list, so there is at least one.                        *)
(***************************************************************************)
ItemId(k) == <<"item", Digits[k + 1]>>
\* item["assets"]: per key the asset's declared data type
\* (item_asset["raster:bands"][0]["data_type"])
AssetMap(keys, data_type) == [a \in keys |-> [data_type |-> data_type]]
Range(s) == {s[k] : k \in 1..Len(s)}

LandsatAssetKeys ==
    Range(sr_tifs) \cup {level1_nir2_band, "lwir11", "lwir", qa_band, sr_cloud_band}
\* asset keys an item may lack
LandsatMissing == {{}, {"red"}}
SentinelMissing == {{}, {"B04"}}

\* data types an asset may declare besides "uint16"
OtherDataTypes == {"uint8", "float32"}

\* an item kind: collection, platform, correction, missing keys, data type
\* (every collection, platform and correction with all assets declared
\* uint16; one of them also with a key missing or with another data type)
LandsatKinds ==
    ({"landsat-c2-l1", "landsat-c2-l2"} \X {"landsat-5", "landsat-8", "landsat-9"}
        \X {"L2SP", "L2SR"} \X {{}} \X {"uint16"})
    \cup ({"landsat-c2-l2"} \X {"landsat-8"} \X {"L2SP"} \X LandsatMissing \X {"uint16"})
    \cup ({"landsat-c2-l2"} \X {"landsat-8"} \X {"L2SP"} \X {{}} \X OtherDataTypes)
SentinelKinds ==
    ({"sentinel-2-l2a"} \X {"sentinel-2b"} \X {""} \X SentinelMissing \X {"uint16"})
    \cup ({"sentinel-2-l2a"} \X {"sentinel-2b"} \X {""} \X {{}} \X OtherDataTypes)
NaipKinds ==
    ({"naip"} \X {""} \X {""} \X {{}, {"image"}} \X {"uint8"})
    \cup ({"naip"} \X {""} \X {""} \X {{}} \X {"uint16", "float32"})

ItemKinds(pl) ==
    CASE pl = "landsat" -> LandsatKinds
      [] pl = "sentinel2" -> SentinelKinds
      [] pl = "naip" -> NaipKinds
MakeItem(pl, k, kind) ==
    [ id |-> ItemId(k), collection |-> kind[1], platform |-> kind[2],
      correction |-> kind[3],
      assets |-> AssetMap((CASE pl = "landsat" -> LandsatAssetKeys
                             [] pl = "sentinel2" -> Range(tifs)
                             [] pl = "naip" -> {"image"}) \ kind[4],
                          kind[5]) ]

TemplateInputs ==
    {L_Multiband, L_QA, L_Surface_Temperature, L_True_Color, S_ALL_BANDS, In_All_Bands}

(***************************************************************************)
(* SpecMosaic: add_rasters_to_md.                                          *)
(***************************************************************************)
InitMosaic ==
    /\ pipeline \in Pipelines
    /\ pc = "expand"
    /\ error = ""
    /\ FilterIdle
    /\ query = EmptyDict
    /\ QueryIdle
    /\ \E n \in 1..MaxItems :
          \E kinds \in [1..n -> ItemKinds(pipeline)] :
              stac_items = [k \in 1..n |-> MakeItem(pipeline, k, kinds[k])]
    /\ IF pipeline = "naip" THEN processing_template = <<>>
       ELSE processing_template \in TemplateInputs
    /\ item_i = 0
    /\ rows = <<>>
    /\ warnings = <<>>
    /\ catalogs = <<>>
    /\ table_file = NoFile
    /\ ingested = NotIngested

\* Landsat: one iteration of "for item in stac_items"
ExpandItemLandsat ==
    /\ pc = "expand"
    /\ pipeline = "landsat"
    /\ item_i < Len(stac_items)
    /\ LET i == item_i + 1
           item == stac_items[i]
           tm == LandsatTemplateMap(item)
           all_bands == AllBands(processing_template)
           steps == ItemSteps(tm, AllTemplates(tm, processing_template))
           run == StepsRun(pipeline, item, steps)
           raised == StepsError(pipeline, item, steps)
       IN  /\ catalogs' = Append(catalogs, tm)
           /\ rows' = rows \o RowsOf(pipeline, i, item, run, all_bands)
           /\ warnings' = warnings \o WarningsOf(item, run)
           /\ IF raised # ""
              THEN pc' = "raised" /\ error' = raised /\ item_i' = item_i
              ELSE /\ item_i' = i
                   /\ pc' = IF i = Len(stac_items) THEN "expanded" ELSE "expand"
                   /\ error' = error
    /\ UNCHANGED <<pipeline, filterVars, query, queryVars, stac_items,
                   processing_template, table_file, ingested>>

\* Sentinel-2: the rows of items 1..n, when every get_row returns
RECURSIVE SentinelRows(_, _)
SentinelRows(n, steps) ==
    IF n = 0 THEN <<>>
    ELSE SentinelRows(n - 1, steps)
         \o RowsOf("sentinel2", n, stac_items[n], steps, AllBands(processing_template))

\* Sentinel-2: the list comprehension that builds rows
ExpandSentinel ==
    /\ pc = "expand"
    /\ pipeline = "sentinel2"
    /\ LET all_templates == AllTemplates(template_map, processing_template)
           steps == ItemSteps(template_map, all_templates)
           failing == {k \in 1..Len(stac_items) :
                          StepsError(pipeline, stac_items[k], steps) # ""}
       IN  IF \E k \in 1..Len(all_templates) : ~HasTemplate(template_map, all_templates[k])
           THEN /\ pc' = "raised" /\ error' = ErrTemplateKey
                /\ UNCHANGED <<rows, item_i>>
           ELSE IF failing # {}
           THEN /\ pc' = "raised"
                /\ error' = StepsError(pipeline,
                                stac_items[CHOOSE k \in failing : \A j \in failing : k <= j],
                                steps)
                /\ UNCHANGED <<rows, item_i>>
           ELSE /\ rows' = SentinelRows(Len(stac_items), steps)
                /\ item_i' = Len(stac_items)
                /\ pc' = "expanded" /\ error' = error
    /\ UNCHANGED <<pipeline, filterVars, query, queryVars, stac_items,
                   processing_template, warnings, catalogs, table_file, ingested>>

\* NAIP: rows = [get_row(item) for item in stac_items]
ExpandNaip ==
    /\ pc = "expand"
    /\ pipeline = "naip"
    /\ LET step == [kind |-> "row", template |-> <<>>, asset |-> "image"]
           failing == {k \in 1..Len(stac_items) :
                          GetRowError(pipeline, stac_items[k], "image") # ""}
       IN  IF failing # {}
           THEN /\ pc' = "raised"
                /\ error' = GetRowError(pipeline,
                                stac_items[CHOOSE k \in failing : \A j \in failing : k <= j],
                                "image")
                /\ UNCHANGED <<rows, item_i>>
           ELSE /\ rows' = [k \in 1..Len(stac_items) |->
                               RowsOf(pipeline, k, stac_items[k], <<step>>, FALSE)[1]]
                /\ item_i' = Len(stac_items)
                /\ pc' = "expanded" /\ error' = error
    /\ UNCHANGED <<pipeline, filterVars, query, queryVars, stac_items,
                   processing_template, warnings, catalogs, table_file, ingested>>

\* with open(input_data, mode="w", newline="") as table_file: the file is
\* created, or truncated, and is open
OpenManifest ==
    /\ pc = "expanded"
    /\ table_file' = [exists |-> TRUE, open |-> TRUE, header |-> <<>>, lines |-> <<>>]
    /\ pc' = "opened"
    /\ UNCHANGED <<pipeline, error, filterVars, query, queryVars, stac_items,
                   processing_template, item_i, rows, warnings, catalogs, ingested>>

\* csv_writer.writerow(fields); csv_writer.writerows(rows)
WriteManifest ==
    /\ pc = "opened"
    /\ table_file' = [table_file EXCEPT !.header = fields(pipeline),
                                        !.lines = [k \in 1..Len(rows) |-> rows[k].row]]
    /\ pc' = "written"
    /\ UNCHANGED <<pipeline, error, filterVars, query, queryVars, stac_items,
                   processing_template, item_i, rows, warnings, catalogs, ingested>>

\* the end of the with block closes the file
CloseManifest ==
    /\ pc = "written"
    /\ table_file' = [table_file EXCEPT !.open = FALSE]
    /\ pc' = "closed"
    /\ UNCHANGED <<pipeline, error, filterVars, query, queryVars, stac_items,
                   processing_template, item_i, rows, warnings, catalogs, ingested>>

\* raster_type = ... (per script)
RasterType(pl, pt) ==
    CASE pl = "landsat" ->
            IF AllBands(pt) \/ pt \notin {L_QA, L_Surface_Temperature}
            THEN "Table_composite.art.xml" ELSE "Table / Raster Catalog"
      [] pl = "sentinel2" ->
            IF AllBands(pt) \/ Len(TemplateBands(template_map, pt)) > 1
            THEN "Table_composite.art.xml" ELSE "Table / Raster Catalog"
      [] pl = "naip" -> "Table / Raster Catalog"

\* arcpy.management.AddRastersToMosaicDataset(in_mosaic_dataset=in_mosaic,
\*     raster_type=raster_type, input_path=input_data): the call, which reads
\* the file as it is on disk at that moment
IngestCall ==
    /\ pc = "closed"
    /\ ingested' = [called |-> TRUE,
                    raster_type |-> RasterType(pipeline, processing_template),
                    input |-> table_file]
    /\ UNCHANGED <<pipeline, filterVars, query, queryVars, stac_items,
                   processing_template, item_i, rows, warnings, catalogs, table_file>>

\* the geoprocessing tool returns
IngestReturns ==
    /\ IngestCall
    /\ pc' = "ingested"
    /\ error' = error

\* the geoprocessing tool raises (arcpy.ExecuteError); nothing in
\* add_rasters_to_md catches it, so the run ends here
IngestRaises ==
    /\ IngestCall
    /\ pc' = "raised"
    /\ error' = ErrIngest

\* arcpy.AddWarning(f"{input_data} may not have been deleted: {e}")
RemoveWarning(pl) ==
    << (CASE pl = "landsat" -> "landsat_table.csv"
          [] pl = "sentinel2" -> "sentinel_table.csv"
          [] pl = "naip" -> "naip_table.csv"),
       " may not have been deleted: ", "e" >>

\* try: os.remove(input_data), which removes the file
RemoveSucceeds ==
    /\ pc = "ingested"
    /\ table_file' = NoFile
    /\ pc' = "done"
    /\ UNCHANGED <<pipeline, error, filterVars, query, queryVars, stac_items,
                   processing_template, item_i, rows, warnings, catalogs, ingested>>

\* try: os.remove(input_data), which raises; except Exception: AddWarning
RemoveFails ==
    /\ pc = "ingested"
    /\ warnings' = Append(warnings, RemoveWarning(pipeline))
    /\ pc' = "done"
    /\ UNCHANGED <<pipeline, error, filterVars, query, queryVars, stac_items,
                   processing_template, item_i, rows, catalogs, table_file, ingested>>

NextMosaic ==
    \/ ExpandItemLandsat
    \/ ExpandSentinel
    \/ ExpandNaip
    \/ OpenManifest
    \/ WriteManifest
    \/ CloseManifest
    \/ IngestReturns
    \/ IngestRaises
    \/ RemoveSucceeds
    \/ RemoveFails

SpecMosaic == InitMosaic /\ [][NextMosaic]_vars

(***************************************************************************)
(* Claims about the Landsat template catalog and about template expansion  *)
(* (SpecMosaic).                                                           *)
(***************************************************************************)
\* the three classifying facts of a Landsat item, as the claims name them
IsLevel2(item) == item.collection = "landsat-c2-l2"
IsOliTirs(item) == item.platform = "landsat-8" \/ item.platform = "landsat-9"
IsL2SP(item) == item.correction = "L2SP"
SameClass(a, b) ==
    /\ IsLevel2(a) <=> IsLevel2(b)
    /\ IsOliTirs(a) <=> IsOliTirs(b)
    /\ IsL2SP(a) <=> IsL2SP(b)

\* the items whose template catalog has been derived so far
Derived == 1..Len(catalogs)
LabelSet(tm) == {tm[k].label : k \in 1..Len(tm)}
EarlySensorBands == <<"green", "red", "nir08", "nir09">>

\* C8 as claimed: the catalog depends on the three facts only; it is exactly
\* {Multiband, QA, Surface Temperature, Surface Reflectance} for a Level-2
\* OLI/TIRS L2SP item and exactly {Multiband, QA} for an item with none of
\* the three, whose Multiband is the reduced early-sensor list.
C8_TemplateSetsAsClaimed ==
    pipeline = "landsat" =>
        /\ \A j \in Derived, k \in Derived :
              SameClass(stac_items[j], stac_items[k]) => catalogs[j] = catalogs[k]
        /\ \A k \in Derived :
              LET item == stac_items[k] IN
              /\ IsLevel2(item) /\ IsOliTirs(item) /\ IsL2SP(item) =>
                    LabelSet(catalogs[k])
                        = {L_Multiband, L_QA, L_Surface_Temperature, L_Surface_Reflectance}
              /\ ~IsLevel2(item) /\ ~IsOliTirs(item) /\ ~IsL2SP(item) =>
                    /\ LabelSet(catalogs[k]) = {L_Multiband, L_QA}
                    /\ TemplateBands(catalogs[k], L_Multiband)
                           = EarlySensorBands \o <<"qa_pixel">>

\* C8 as amended: the same, except that the catalog of an item with none of
\* the three facts is exactly {Multiband, QA, Multispectral}, Multiband being
\* the reduced early-sensor list followed by the QA band and Multispectral
\* the reduced early-sensor list.
C8_TemplateSetsAmended ==
    pipeline = "landsat" =>
        /\ \A j \in Derived, k \in Derived :
              SameClass(stac_items[j], stac_items[k]) => catalogs[j] = catalogs[k]
        /\ \A k \in Derived :
              LET item == stac_items[k] IN
              /\ IsLevel2(item) /\ IsOliTirs(item) /\ IsL2SP(item) =>
                    LabelSet(catalogs[k])
                        = {L_Multiband, L_QA, L_Surface_Temperature, L_Surface_Reflectance}
              /\ ~IsLevel2(item) /\ ~IsOliTirs(item) /\ ~IsL2SP(item) =>
                    /\ LabelSet(catalogs[k]) = {L_Multiband, L_QA, L_Multispectral}
                    /\ TemplateBands(catalogs[k], L_Multiband)
                           = EarlySensorBands \o <<"qa_pixel">>
                    /\ TemplateBands(catalogs[k], L_Multispectral) = EarlySensorBands

\* C8 witness: the catalogs of a Level-2 OLI/TIRS L2SP item and of an item
\* with none of the three facts have both been derived.
C8_Witness ==
    /\ pipeline = "landsat" /\ Len(catalogs) = 2
    /\ IsLevel2(stac_items[1]) /\ IsOliTirs(stac_items[1]) /\ IsL2SP(stac_items[1])
    /\ ~IsLevel2(stac_items[2]) /\ ~IsOliTirs(stac_items[2]) /\ ~IsL2SP(stac_items[2])

\* C9: every Landsat item's catalog holds Multiband and QA; it holds Surface
\* Temperature and Surface Reflectance and not Multispectral exactly when the
\* item's correction is L2SP, and Multispectral without the other two
\* otherwise.
C9_CatalogByCorrection ==
    pipeline = "landsat" =>
        \A k \in Derived :
            LET labels == LabelSet(catalogs[k]) IN
            /\ L_Multiband \in labels /\ L_QA \in labels
            /\ IF IsL2SP(stac_items[k])
               THEN /\ L_Surface_Temperature \in labels
                    /\ L_Surface_Reflectance \in labels
                    /\ L_Multispectral \notin labels
               ELSE /\ L_Multispectral \in labels
                    /\ L_Surface_Temperature \notin labels
                    /\ L_Surface_Reflectance \notin labels

\* C9 witness: an L2SP item and an item of another correction, both with
\* their catalogs derived.
C9_Witness ==
    /\ pipeline = "landsat" /\ Len(catalogs) = 2
    /\ IsL2SP(stac_items[1]) /\ ~IsL2SP(stac_items[2])

\* the run is past the expansion of items into rows, or was ended by it
ExpansionEnded == pc # "expand"
ExpansionFailed == pc = "raised" /\ error \in {ErrAssetKey, ErrPixelType, ErrTemplateKey}

\* the asset keys the requested template(s) name for item k
NeededKeys(k) ==
    LET tm == IF pipeline = "landsat" THEN LandsatTemplateMap(stac_items[k])
              ELSE template_map
        steps == ItemSteps(tm, AllTemplates(tm, processing_template))
    IN  {steps[n].asset : n \in {m \in 1..Len(steps) : steps[m].kind = "row"}}
\* those of them that the item's asset map lacks
MissingKeys(k) == NeededKeys(k) \ DOMAIN stac_items[k].assets
WarnsAbout(k) ==
    \E n \in 1..Len(warnings) :
        SubSeq(warnings[n], Len(warnings[n]) - 1, Len(warnings[n])) = ItemId(k)

\* C10: a template band that is not a key of the item's asset map yields no
\* row but a warning, and the run goes on; every row's asset key is a key of
\* its item's asset map.
C10_MissingAssetIsSkippedWithWarning ==
    /\ \A n \in 1..Len(rows) :
          rows[n].asset_key \in DOMAIN stac_items[rows[n].item].assets
    /\ ExpansionEnded =>
          \A k \in 1..Len(stac_items) :
              MissingKeys(k) # {} => ~ExpansionFailed /\ WarnsAbout(k)

(***************************************************************************)
(* Claims about template mismatch, pixel types and row naming (SpecMosaic).*)
(***************************************************************************)
MultiTemplate == pipeline \in {"landsat", "sentinel2"}

\* the template catalog of item k: derived per item (Landsat) or the static
\* table (Sentinel-2)
CatalogOf(k) ==
    IF pipeline = "landsat" THEN LandsatTemplateMap(stac_items[k]) ELSE template_map

\* a and b are the same letter in either case, or the same character
SameLetter(a, b) == a = b \/ \E i \in 1..26 : {a, b} = {Upper[i], Lower[i]}
\* the requested template is "ALL BANDS" in some letter case
IsAllBandsRequest ==
    /\ Len(processing_template) = Len(S_ALL_BANDS)
    /\ \A i \in 1..Len(S_ALL_BANDS) : SameLetter(processing_template[i], S_ALL_BANDS[i])

\* the requested template is a label that item k's catalog does not have
Mismatch(k) ==
    ~IsAllBandsRequest /\ processing_template \notin LabelSet(CatalogOf(k))

\* every asset the request needs of item k is there, with a mapped data type
Projectable(k) ==
    /\ MissingKeys(k) = {}
    /\ \A a \in NeededKeys(k) : stac_items[k].assets[a].data_type \in {"uint16", "uint8"}

\* the asset keys of the rows made from item k, in row order
RowKeysOf(k) ==
    LET FromK(r) == r.item = k
        mine == SelectSeq(rows, FromK)
    IN  [n \in 1..Len(mine) |-> mine[n].asset_key]

\* C11: in the Landsat and Sentinel-2 pipelines, a requested template that is
\* not in an item's catalog gives that item no rows and a warning, the
\* expansion does not fail, and every other item has the rows of the
\* requested template.  Stated for item lists whose assets are all
\* projectable, so that no other failure interferes.
C11_TemplateMismatchIsSkipped ==
    (MultiTemplate /\ ExpansionEnded /\ \A k \in 1..Len(stac_items) : Projectable(k)) =>
        \A k \in 1..Len(stac_items) :
            Mismatch(k) =>
                /\ ~ExpansionFailed
                /\ RowKeysOf(k) = <<>>
                /\ WarnsAbout(k)
                /\ \A j \in 1..Len(stac_items) :
                      ~Mismatch(j) /\ ~IsAllBandsRequest =>
                          RowKeysOf(j) = TemplateBands(CatalogOf(j), processing_template)

\* the declared data type of the asset that row n was made from
DeclaredType(n) == stac_items[rows[n].item].assets[rows[n].asset_key].data_type

\* C12: in every pipeline a row's pixel type is U16 for a declared uint16 and
\* U8 for a declared uint8, no row is made from an asset of another declared
\* data type, and a run that needs such an asset fails in the expansion.
C12_PixelTypeFromDeclaredType ==
    /\ \A n \in 1..Len(rows) :
          \/ DeclaredType(n) = "uint16" /\ rows[n].row.PixelType = "U16"
          \/ DeclaredType(n) = "uint8" /\ rows[n].row.PixelType = "U8"
    /\ ExpansionEnded =>
          \A k \in 1..Len(stac_items) :
              (\E a \in (IF pipeline = "naip" THEN {"image"} ELSE NeededKeys(k))
                          \cap DOMAIN stac_items[k].assets :
                  stac_items[k].assets[a].data_type \notin {"uint16", "uint8"})
              => ExpansionFailed

\* the templates the request selects for item k, in order
ExpectedTemplates(k) ==
    IF IsAllBandsRequest THEN TemplateKeys(CatalogOf(k)) ELSE <<processing_template>>

\* name columns expected of the rows of one template of item k
ExpectedTemplateRows(k, label) ==
    LET id == stac_items[k].id
        bands == IF label \in LabelSet(CatalogOf(k))
                 THEN TemplateBands(CatalogOf(k), label) ELSE <<>>
    IN  [n \in 1..Len(bands) |->
            [item |-> k, asset_key |-> bands[n],
             Name |-> id \o <<"-", bands[n]>>,
             GroupName |-> IF IsAllBandsRequest THEN id \o <<"_">> \o label ELSE id]]

RECURSIVE ExpectedOfTemplates(_, _)
ExpectedOfTemplates(k, labels) ==
    IF labels = <<>> THEN <<>>
    ELSE ExpectedTemplateRows(k, Head(labels)) \o ExpectedOfTemplates(k, Tail(labels))

\* the same for items 1..n
RECURSIVE ExpectedRows(_)
ExpectedRows(n) ==
    IF n = 0 THEN <<>>
    ELSE ExpectedRows(n - 1) \o ExpectedOfTemplates(n, ExpectedTemplates(n))

\* the name columns of the rows made so far
NamesOfRows ==
    [n \in 1..Len(rows) |->
        [item |-> rows[n].item, asset_key |-> rows[n].asset_key,
         Name |-> rows[n].row.Name, GroupName |-> rows[n].row.GroupName]]

\* C13: in the Landsat and Sentinel-2 pipelines, unless get_row has raised,
\* the rows made for the items expanded so far are: for "ALL BANDS" in any
\* letter case one row per band of every template of the item's catalog, in
\* item, template and band order, with group name {item-id}_{template-label};
\* for another template the rows of that template only, with the bare item
\* id as group name; in both modes the name is {item-id}-{asset-key}.
C13_RowsAndNamesByMode ==
    (MultiTemplate /\ ~ExpansionFailed) => NamesOfRows = ExpectedRows(item_i)

\* C13 witness: a Landsat run with "All Bands" in mixed case has expanded an
\* L2SP item and an item of another correction.
C13_Witness ==
    /\ pipeline = "landsat" /\ pc = "expanded"
    /\ processing_template = In_All_Bands
    /\ Len(stac_items) = 2
    /\ IsL2SP(stac_items[1]) /\ ~IsL2SP(stac_items[2])
    /\ \E n \in 1..Len(rows) : rows[n].item = 2

(***************************************************************************)
(* Claim about the manifest file (SpecMosaic).                             *)
(***************************************************************************)
RunEnded == pc \in {"done", "raised"}
\* the manifest as the with block leaves it: closed, header and every row
CompleteManifest ==
    [exists |-> TRUE, open |-> FALSE, header |-> fields(pipeline),
     lines |-> [k \in 1..Len(rows) |-> rows[k].row]]
RemovalWarned == \E n \in 1..Len(warnings) : warnings[n] = RemoveWarning(pipeline)

\* C14: ingestion is called with the completely written, closed manifest; a
\* run that has ended leaves the manifest file behind only if its removal was
\* tried and failed, which gives a warning and a run that ends normally.
C14_ManifestRemovedAfterIngestion ==
    /\ ingested.called => ingested.input = CompleteManifest
    /\ (RunEnded /\ table_file.exists) => RemovalWarned
    /\ RemovalWarned => pc = "done" /\ error = ""

=============================================================================
